---- MODULE Spec2Model ----
(***************************************************************************)
(* A model of the reliable message stream over UDP of this repository:     *)
(* UdpStream (src/src/UdpStream.ts) and the multiplexing UdpSocket (the    *)
(* latest variant, src/unnamed/part_001, which adds the open handler to    *)
(* src/src/UdpSocket.ts).                                                  *)
(*                                                                         *)
(* Two sockets exist: socket 1 is a client (it never called listen(), so   *)
(* its `streams` map is undefined) and socket 2 is a server (listen() was  *)
(* called).  Every handler of the single-threaded event loop is one        *)
(* atomic action.  A handler is written as a function from the whole       *)
(* program state G (a record of the variables) to the state it leaves, so  *)
(* that nested calls (receive -> close -> send -> end -> onClose ->        *)
(* handleClose -> end) compose as they do in the code.  G.exc is an        *)
(* exception in flight: once set, the rest of the handler is skipped.      *)
(*                                                                         *)
(* A frame is the sequence of 16-bit words the serializer wrote: the ack,  *)
(* then for each item its seq and its payload, then the terminator.  The   *)
(* Oracle's encoding of an item is external; it is modelled as one word.   *)
(***************************************************************************)
EXTENDS Integers, Sequences, FiniteSets, TLC

\* ---------------------------------------------------------------- constants
MAX_RETRY_INTERVAL == 3000
MIN_RETRY_INTERVAL == 500
RETRY_STEP == 500
CLOSE_SEQ == 65535
OPEN_ATTEMPTS == 10
CLOSE_ATTEMPTS == 5
REMOTE_CLOSE_ATTEMPTS == 1

\* ------------------------------------------------------------------- bounds
\* items the application enqueues on one stream
MaxSeq == 2
\* payload words (the type id an item's encoding starts with) are 1..MaxVal;
\* a connect handler is registered for type id 1 only
MaxVal == 2
\* stream objects ever constructed
MaxStreams == 3
\* datagrams the link loses / duplicates, and holds in flight at a time
MaxDrops == 1
MaxDups == 1
MaxNet == 2
\* calls the application makes on streams and sockets after connect()
MaxCalls == 1
\* retry timers that expire
MaxFires == 1
\* connect() calls of the client socket
MaxConnects == 1
\* user-data values a connect handler resolves with are 1..MaxUserData
MaxUserData == 1

Socks == {1, 2}
Vals == 1..MaxVal
UserData == 1..MaxUserData

VARIABLES
  streams,   \* the UdpStream objects, in order of construction
  socks,     \* the two UdpSocket objects
  net,       \* datagrams in flight
  pend,      \* connect handlers awaiting their promise
  thrown,    \* an exception escaped a handler (uncaught / unhandled rejection)
  used,      \* what the environment did so far: connects, drops, dups, calls, fires
  limit      \* what the environment may do in this behaviour (never changes)

vars == <<streams, socks, net, pend, thrown, used, limit>>

\* The program state as one record; exc is the exception in flight.
State == [streams |-> streams, socks |-> socks, net |-> net, pend |-> pend,
          thrown |-> thrown, exc |-> FALSE]

Throw(G) == [G EXCEPT !.exc = TRUE, !.thrown = TRUE]

\* ------------------------------------------------------------ UdpStream
\* constructor and field initialisers.  The fields after onClose are
\* observers: calls of the onClose callback and (endCalls, counted up to 2)
\* of end(), items handed to the receive
\* handler, payloads enqueued (enq[seq]), frames emitted, calls of the
\* socket's open and close handlers for this stream, the frames received
\* (seen) and how many receive() calls were given a frame already seen (again,
\* counted up to 2), and the frames emitted when the remote close sentinel
\* was first observed (sentAtClose).  retryDelay is the delay the armed retry
\* timer was set with (0: none armed).
NewStream(sock, remote, kind) ==
  [sock |-> sock, remote |-> remote, kind |-> kind,
   items |-> <<>>, localSeq |-> 0, remoteSeq |-> 0,
   sendHandle |-> "null", retryHandle |-> "null",
   retryInterval |-> MIN_RETRY_INTERVAL, retryDelay |-> 0,
   attempts |-> 0, maxAttempts |-> OPEN_ATTEMPTS,
   closing |-> FALSE, onClose |-> TRUE,
   onCloseCalls |-> 0, delivered |-> <<>>, enq |-> <<>>, sent |-> 0,
   opens |-> 0, closes |-> <<>>, endCalls |-> 0, seen |-> {}, again |-> 0,
   sentAtClose |-> 0]

Stream(G, s) == G.streams[s]
Sock(G, k) == G.socks[k]

\* ------------------------------------------------------------ UdpSocket
\* constructor (+ listen() for the server socket).  bufItems is the number
\* of encoded items the socket's 1000-byte send buffer takes; throws says
\* whether the open and close handlers the user registered throw.
NewSocket(listening, bufItems) ==
  [stream |-> 0, listening |-> listening, streams |-> <<>>,
   closing |-> FALSE, released |-> 0, handlers |-> TRUE,
   bufItems |-> bufItems, throws |-> FALSE]

NoStreams(G, k) == Sock(G, k).stream = 0
                   /\ (~Sock(G, k).listening \/ DOMAIN Sock(G, k).streams = {})

\* UdpSocket.end(): clears the handler tables and releases the transport.
\* Closing a datagram socket that is already closed throws.
sockEnd(G, k) ==
  LET G1 == [G EXCEPT !.socks[k].handlers = FALSE,
                      !.socks[k].released = IF @ < 2 THEN @ + 1 ELSE @]
  IN IF Sock(G, k).released > 0 THEN Throw(G1) ELSE G1

\* UdpSocket.handleClose(userData, stream); userData null is 0.  A throw of
\* the close handler leaves the method.
handleClose(G, k, userData, s) ==
  LET G1 == IF Sock(G, k).handlers
            THEN [G EXCEPT !.streams[s].closes = Append(@, userData)]
            ELSE G
  IN IF Sock(G, k).handlers /\ Sock(G, k).throws THEN Throw(G1)
     ELSE IF Sock(G1, k).closing /\ NoStreams(G1, k) THEN sockEnd(G1, k) ELSE G1

\* the onClose closure connect() gives the outbound stream
onCloseClient(G, s) ==
  LET k == Stream(G, s).sock
      G1 == [G EXCEPT !.socks[k].stream = 0, !.socks[k].closing = TRUE]
  IN handleClose(G1, k, 0, s)

\* the onClose closure handleMessage gives a new inbound stream; reading
\* ep.stream of a missing entry throws a TypeError
onCloseServer(G, s) ==
  LET k == Stream(G, s).sock
      remoteId == Stream(G, s).remote
      reg == Sock(G, k).streams
  IN IF remoteId \notin DOMAIN reg THEN Throw(G)
     ELSE IF reg[remoteId].stream = s
     THEN handleClose(
            [G EXCEPT !.socks[k].streams =
                        [r \in DOMAIN reg \ {remoteId} |-> reg[r]]],
            k, reg[remoteId].userData, s)
     ELSE G

onCloseCb(G, s) ==
  IF Stream(G, s).kind = "client" THEN onCloseClient(G, s)
  ELSE onCloseServer(G, s)

\* ------------------------------------------------------ UdpStream methods
\* end() that leaves the onClose callback in place
end_KeepOnClose(G, s) ==
  LET G1 == [G EXCEPT !.streams[s].closing = TRUE,
                      !.streams[s].retryHandle = "null",
                      !.streams[s].retryDelay = 0,
                      !.streams[s].sendHandle = "null",
                      !.streams[s].endCalls = IF @ < 2 THEN @ + 1 ELSE @]
  IN onCloseCb([G1 EXCEPT !.streams[s].onCloseCalls = @ + 1], s)

\* UdpStream.end()
end(G, s) ==
  LET G1 == [G EXCEPT !.streams[s].closing = TRUE,
                      !.streams[s].retryHandle = "null",
                      !.streams[s].retryDelay = 0,
                      !.streams[s].sendHandle = "null",
                      !.streams[s].endCalls = IF @ < 2 THEN @ + 1 ELSE @]
  IN IF Stream(G, s).onClose
     THEN onCloseCb([G1 EXCEPT !.streams[s].onClose = FALSE,
                               !.streams[s].onCloseCalls = @ + 1], s)
     ELSE G1

\* send() that enqueues under the current local_seq without advancing it
send_NoIncrement(G, s, hasItem, item) ==
  LET st == Stream(G, s)
      G1 == IF hasItem /\ ~st.closing
            THEN [G EXCEPT !.streams[s].items =
                              Append(@, [seq |-> st.localSeq + 1, item |-> item]),
                           !.streams[s].enq = Append(@, item)]
            ELSE G
  IN IF st.sendHandle # "null" THEN G1
     ELSE IF st.attempts >= st.maxAttempts THEN end(G1, s)
     ELSE [G1 EXCEPT !.streams[s].sendHandle = "armed"]

\* UdpStream.send(item?); hasItem = FALSE is the call without an argument
send(G, s, hasItem, item) ==
  LET st == Stream(G, s)
      G1 == IF hasItem /\ ~st.closing
            THEN [G EXCEPT !.streams[s].localSeq = @ + 1,
                           !.streams[s].items =
                              Append(@, [seq |-> st.localSeq + 1, item |-> item]),
                           !.streams[s].enq = Append(@, item)]
            ELSE G
  IN IF st.sendHandle # "null" THEN G1
     ELSE IF st.attempts >= st.maxAttempts THEN end(G1, s)
     ELSE [G1 EXCEPT !.streams[s].sendHandle = "armed"]

\* close() that ends the stream when it is already closing
close_EndIfClosing(G, s) ==
  IF Stream(G, s).closing THEN end(G, s)
  ELSE send([G EXCEPT !.streams[s].closing = TRUE,
                      !.streams[s].maxAttempts = CLOSE_ATTEMPTS], s, FALSE, 0)

\* UdpStream.close()
close(G, s) ==
  IF Stream(G, s).closing THEN G
  ELSE send([G EXCEPT !.streams[s].closing = TRUE,
                      !.streams[s].maxAttempts = CLOSE_ATTEMPTS], s, FALSE, 0)

Min(a, b) == IF a < b THEN a ELSE b

RECURSIVE itemWords(_, _)
itemWords(items, n) ==
  IF n = 0 THEN <<>>
  ELSE itemWords(items, n - 1) \o <<items[n].seq, items[n].item>>

\* serialize() that writes the close sentinel whenever the stream is closing
serialize_AlwaysSentinel(st, bufItems) ==
  LET fit == Min(Len(st.items), bufItems)
  IN <<st.remoteSeq>> \o itemWords(st.items, fit)
       \o <<IF st.closing THEN CLOSE_SEQ ELSE 0>>

\* UdpStream.serialize(): the words of one frame, given the number of items
\* the buffer takes before an encoding throws
serialize(st, bufItems) ==
  LET fit == Min(Len(st.items), bufItems)
      remaining == Len(st.items) - fit
  IN <<st.remoteSeq>> \o itemWords(st.items, fit)
       \o <<IF st.closing /\ remaining = 0 THEN CLOSE_SEQ ELSE 0>>

\* UdpSocket.sendStream(stream): sending on a released transport throws
sendStream(G, s) ==
  LET st == Stream(G, s)
      k == st.sock
  IN IF Sock(G, k).released > 0 THEN Throw(G)
     ELSE [G EXCEPT !.net = @ \cup {[to |-> st.remote, from |-> k,
                                     words |-> serialize(st, Sock(G, k).bufItems)]},
                    !.streams[s].sent = @ + 1]

\* sendTick with a retry interval that never grows
sendTick_NoBackoff(G, s) ==
  LET G1 == sendStream([G EXCEPT !.streams[s].attempts = @ + 1], s)
      st == Stream(G1, s)
  IN IF G1.exc THEN [G1 EXCEPT !.streams[s].sendHandle = "fired"]
     ELSE IF Len(st.items) > 0 \/ st.closing
     THEN [G1 EXCEPT !.streams[s].sendHandle = "null",
                     !.streams[s].retryHandle = "armed",
                     !.streams[s].retryDelay = st.retryInterval]
     ELSE [G1 EXCEPT !.streams[s].sendHandle = "null",
                     !.streams[s].attempts = 0]

\* the setImmediate callback of send()
sendTick(G, s) ==
  LET G1 == sendStream([G EXCEPT !.streams[s].attempts = @ + 1], s)
      st == Stream(G1, s)
  IN IF G1.exc THEN [G1 EXCEPT !.streams[s].sendHandle = "fired"]
     ELSE IF Len(st.items) > 0 \/ st.closing
     THEN [G1 EXCEPT !.streams[s].sendHandle = "null",
                     !.streams[s].retryHandle = "armed",
                     !.streams[s].retryDelay = st.retryInterval,
                     !.streams[s].retryInterval =
                        IF @ < MAX_RETRY_INTERVAL THEN @ + RETRY_STEP ELSE @]
     ELSE [G1 EXCEPT !.streams[s].sendHandle = "null",
                     !.streams[s].attempts = 0]

\* the setTimeout callback of send(): the handle stays set, but is spent
retryFire(G, s) ==
  send([G EXCEPT !.streams[s].retryHandle = "fired",
                 !.streams[s].retryDelay = 0], s, FALSE, 0)

\* --------------------------------------------- handlers given to receive()
\* the connect handler table holds type id 1 until end() clears it
HasConnectHandler(G, k, item) == Sock(G, k).handlers /\ item = 1

\* An exception inside an async function rejects its promise: it does not
\* reach the caller.
Async(G) == [G EXCEPT !.exc = FALSE]

\* the stream handler dispatch of the outbound stream and of a registered
\* inbound stream (userData 0 on the client side)
streamHandler(G, s, seq, item, userData) ==
  [G EXCEPT !.streams[s].delivered =
     Append(@, [seq |-> seq, item |-> item, via |-> "stream", userData |-> userData])]

\* the async handler of a new inbound stream, up to its await
connectHandler(G, s, seq, item) ==
  LET k == Stream(G, s).sock
      G1 == [G EXCEPT !.streams[s].delivered =
               Append(@, [seq |-> seq, item |-> item, via |-> "connect", userData |-> 0])]
  IN IF ~HasConnectHandler(G, k, item) THEN Async(close(G1, s))
     ELSE [G1 EXCEPT !.pend = Append(@, [sock |-> k, remote |-> Stream(G, s).remote,
                                          stream |-> s])]

handler(G, s, seq, item, hk) ==
  IF hk.kind = "connect" THEN connectHandler(G, s, seq, item)
  ELSE streamHandler(G, s, seq, item, hk.userData)

\* ------------------------------------------------------ UdpStream.receive
\* the do-while loop over the words that follow the ack; reading past the
\* end of the datagram throws
RECURSIVE receiveLoop(_, _, _, _, _)
receiveLoop(G, s, words, pos, hk) ==
  IF G.exc THEN G
  ELSE IF pos > Len(words) THEN Throw(G)
  ELSE LET seq == words[pos] IN
    IF seq = 0 THEN G
    ELSE IF seq = CLOSE_SEQ
    THEN LET G1 == close([G EXCEPT !.streams[s].remoteSeq = seq,
                                   !.streams[s].sentAtClose =
                                      IF Stream(G, s).remoteSeq = CLOSE_SEQ
                                      THEN @ ELSE Stream(G, s).sent], s)
         IN IF G1.exc THEN G1
            ELSE [G1 EXCEPT !.streams[s].maxAttempts = REMOTE_CLOSE_ATTEMPTS]
    ELSE IF seq > Stream(G, s).remoteSeq
    THEN LET G1 == IF Stream(G, s).sendHandle = "null"
                   THEN send(G, s, FALSE, 0) ELSE G
             G2 == [G1 EXCEPT !.streams[s].remoteSeq = seq]
         IN IF G1.exc THEN G1
            ELSE IF pos + 1 > Len(words) THEN Throw(G2)
            ELSE receiveLoop(handler(G2, s, seq, words[pos + 1], hk),
                             s, words, pos + 2, hk)
    ELSE receiveLoop(G, s, words, pos + 1, hk)

RECURSIVE ackItems(_, _)
ackItems(items, remoteAck) ==
  IF Len(items) = 0 \/ items[1].seq > remoteAck THEN items
  ELSE ackItems(Tail(items), remoteAck)

receive(G, s, words, hk) ==
  LET remoteAck == words[1]
      G1 == [G EXCEPT !.streams[s].items = ackItems(@, remoteAck),
                      !.streams[s].attempts = 0,
                      !.streams[s].seen = @ \cup {words},
                      !.streams[s].again =
                         IF words \in Stream(G, s).seen /\ @ < 2 THEN @ + 1 ELSE @]
  IN IF remoteAck = CLOSE_SEQ THEN end(G1, s)
     ELSE receiveLoop([G1 EXCEPT !.streams[s].retryInterval = MIN_RETRY_INTERVAL,
                                 !.streams[s].retryHandle = "null",
                                 !.streams[s].retryDelay = 0],
                      s, words, 2, hk)

\* ------------------------------------------- UdpSocket.handleMessage (STREAM)
handleMessage(G, k, from, words) ==
  LET sk == Sock(G, k) IN
  IF sk.stream # 0
  THEN receive(G, sk.stream, words, [kind |-> "stream", userData |-> 0])
  ELSE IF ~sk.listening THEN Throw(G)
  ELSE IF from \notin DOMAIN sk.streams
  THEN LET s == Len(G.streams) + 1
       IN receive([G EXCEPT !.streams = Append(@, NewStream(k, from, "server"))],
                  s, words, [kind |-> "connect", userData |-> 0])
  ELSE receive(G, sk.streams[from].stream, words,
               [kind |-> "stream", userData |-> sk.streams[from].userData])

RemoveAt(q, i) == SubSeq(q, 1, i - 1) \o SubSeq(q, i + 1, Len(q))

\* the rest of the async handler, after its await resolved with userData
\* (0: nothing)
connectResolve(G, i, userData) ==
  LET p == G.pend[i]
      G1 == [G EXCEPT !.pend = RemoveAt(@, i)]
      reg == Sock(G, p.sock).streams
  IN IF userData # 0 /\ p.remote \notin DOMAIN reg
     THEN LET G2 == [G1 EXCEPT !.socks[p.sock].streams =
                       [r \in DOMAIN reg \cup {p.remote} |->
                          IF r = p.remote
                          THEN [stream |-> p.stream, userData |-> userData]
                          ELSE reg[r]]]
              G3 == [G2 EXCEPT !.streams[p.stream].opens = @ + 1]
          IN IF ~Sock(G, p.sock).handlers THEN G2
             ELSE IF Sock(G, p.sock).throws THEN Async(Throw(G3))
             ELSE G3
     ELSE Async(end(G1, p.stream))

\* UdpSocket.connect(endpoint, message)
connect(G, k, endpoint, message) ==
  LET s == Len(G.streams) + 1
  IN send([G EXCEPT !.streams = Append(@, NewStream(k, endpoint, "client")),
                    !.socks[k].stream = s], s, TRUE, message)

RECURSIVE closeAll(_, _, _)
closeAll(G, k, remotes) ==
  IF remotes = {} \/ G.exc THEN G
  ELSE LET r == CHOOSE x \in remotes : \A y \in remotes : x <= y
           reg == Sock(G, k).streams
       IN closeAll(IF r \in DOMAIN reg THEN close(G, reg[r].stream) ELSE G,
                   k, remotes \ {r})

\* UdpSocket.close()
sockClose(G, k) ==
  IF Sock(G, k).closing THEN G
  ELSE LET G1 == [G EXCEPT !.socks[k].closing = TRUE]
           G2 == IF NoStreams(G1, k) THEN sockEnd(G1, k) ELSE G1
           G3 == IF G2.exc \/ Sock(G2, k).stream = 0 THEN G2
                 ELSE close(G2, Sock(G2, k).stream)
       IN IF G3.exc \/ ~Sock(G3, k).listening THEN G3
          ELSE closeAll(G3, k, DOMAIN Sock(G3, k).streams)

\* ------------------------------------------------------------------ actions
Commit(G) ==
  /\ streams' = G.streams
  /\ socks' = G.socks
  /\ net' = G.net
  /\ pend' = G.pend
  /\ thrown' = G.thrown
  /\ limit' = limit

Use(what) == used' = [used EXCEPT ![what] = @ + 1]
May(what) == used[what] < limit[what]

\* the two sockets after construction, the server after listen()
Constructed ==
  [streams |-> <<>>, socks |-> [k \in Socks |-> NewSocket(k = 2, MaxSeq)],
   net |-> {}, pend |-> <<>>, thrown |-> FALSE, exc |-> FALSE]

Start(G) ==
  /\ streams = G.streams
  /\ socks = G.socks
  /\ net = G.net
  /\ pend = G.pend
  /\ thrown = G.thrown

InitProgram ==
  /\ Start(Constructed)
  /\ used = [connects |-> 0, drops |-> 0, dups |-> 0, calls |-> 0, fires |-> 0]

\* dead: the socket whose process is gone (0: none); userData: the user-data
\* of the stream registered in the initial state (0: none)
Init ==
  /\ InitProgram
  /\ limit = [connects |-> MaxConnects, drops |-> MaxDrops, dups |-> MaxDups,
              calls |-> MaxCalls, fires |-> MaxFires, dead |-> 0, userData |-> 0]

\* the application calls connect() on the client socket
Connect(v) ==
  /\ May("connects")
  /\ Len(streams) < MaxStreams
  /\ Commit(connect(State, 1, 2, v))
  /\ Use("connects")

\* the application calls close() on a socket
SockClose(k) ==
  /\ May("calls")
  /\ Commit(sockClose(State, k))
  /\ Use("calls")

\* the application calls send(item) on a stream it holds
StreamSend(s, v) ==
  /\ May("calls")
  /\ streams[s].localSeq < MaxSeq
  /\ Commit(send(State, s, TRUE, v))
  /\ Use("calls")

\* the application calls close() on a stream it holds
StreamClose(s) ==
  /\ May("calls")
  /\ Commit(close(State, s))
  /\ Use("calls")

\* the application calls end() on a stream it holds
StreamEnd(s) ==
  /\ May("calls")
  /\ Commit(end(State, s))
  /\ Use("calls")

\* the event loop runs the scheduled send of a stream
SendTick(s) ==
  /\ streams[s].sendHandle = "armed"
  /\ Cardinality(net) < MaxNet
  /\ Commit(sendTick(State, s))
  /\ UNCHANGED used

\* the retry timer of a stream expires
RetryFire(s) ==
  /\ May("fires")
  /\ streams[s].retryHandle = "armed"
  /\ Commit(retryFire(State, s))
  /\ Use("fires")

NeedsStream(f) == socks[f.to].stream = 0 /\ socks[f.to].listening
                  /\ f.from \notin DOMAIN socks[f.to].streams

\* the transport hands a datagram to the 'message' listener; the link may
\* deliver it again later (dup)
Deliver(f, dup) ==
  /\ socks[f.to].released = 0
  /\ NeedsStream(f) => Len(streams) < MaxStreams
  /\ dup => May("dups")
  /\ LET G == handleMessage(State, f.to, f.from, f.words)
     IN Commit(IF dup THEN G ELSE [G EXCEPT !.net = @ \ {f}])
  /\ IF dup THEN Use("dups") ELSE UNCHANGED used

\* the link loses a datagram
Drop(f) ==
  /\ May("drops")
  /\ net' = net \ {f}
  /\ Use("drops")
  /\ UNCHANGED <<streams, socks, pend, thrown, limit>>

\* a datagram for a socket whose listeners are removed goes nowhere
Discard(f) ==
  /\ socks[f.to].released > 0
  /\ net' = net \ {f}
  /\ UNCHANGED <<streams, socks, pend, thrown, used, limit>>

\* the promise of a connect handler resolves
ConnectResolve(i, userData) ==
  /\ Commit(connectResolve(State, i, userData))
  /\ UNCHANGED used

Next ==
  \/ \E v \in Vals : Connect(v)
  \/ \E k \in Socks : SockClose(k)
  \/ \E s \in DOMAIN streams, v \in Vals : StreamSend(s, v)
  \/ \E s \in DOMAIN streams : StreamClose(s)
  \/ \E s \in DOMAIN streams : StreamEnd(s)
  \/ \E s \in DOMAIN streams : SendTick(s)
  \/ \E s \in DOMAIN streams : RetryFire(s)
  \/ \E f \in net, dup \in BOOLEAN : Deliver(f, dup)
  \/ \E f \in net : Drop(f)
  \/ \E f \in net : Discard(f)
  \/ \E i \in DOMAIN pend, userData \in {0} \cup UserData : ConnectResolve(i, userData)

Spec == Init /\ [][Next]_vars

\* The client application calls connect() more than once, over a link that
\* neither loses nor duplicates.
InitReconnect ==
  /\ InitProgram
  /\ limit = [connects |-> MaxConnects + 1, drops |-> 0, dups |-> 0,
              calls |-> MaxCalls, fires |-> MaxFires, dead |-> 0, userData |-> 0]

NextReconnect ==
  \/ \E v \in Vals : Connect(v)
  \/ \E k \in Socks : SockClose(k)
  \/ \E s \in DOMAIN streams, v \in Vals : StreamSend(s, v)
  \/ \E s \in DOMAIN streams : StreamClose(s)
  \/ \E s \in DOMAIN streams : StreamEnd(s)
  \/ \E s \in DOMAIN streams : SendTick(s)
  \/ \E s \in DOMAIN streams : RetryFire(s)
  \/ \E f \in net : Deliver(f, FALSE)
  \/ \E f \in net : Discard(f)
  \/ \E i \in DOMAIN pend, userData \in {0} \cup UserData : ConnectResolve(i, userData)

SpecReconnect == InitReconnect /\ [][NextReconnect]_vars

\* The application makes one call more on its sockets and streams, over a
\* link that neither loses nor duplicates.
InitApp ==
  /\ InitProgram
  /\ limit = [connects |-> MaxConnects, drops |-> 0, dups |-> 0,
              calls |-> MaxCalls + 1, fires |-> MaxFires, dead |-> 0, userData |-> 0]

SpecApp == InitApp /\ [][NextReconnect]_vars

\* The open and close handlers the user registered on the sockets throw.
InitThrow ==
  /\ Start([Constructed EXCEPT !.socks = [k \in Socks |-> [@[k] EXCEPT !.throws = TRUE]]])
  /\ used = [connects |-> 0, drops |-> 0, dups |-> 0, calls |-> 0, fires |-> 0]
  /\ limit = [connects |-> MaxConnects, drops |-> MaxDrops, dups |-> MaxDups,
              calls |-> MaxCalls, fires |-> MaxFires, dead |-> 0, userData |-> 0]

SpecThrow == InitThrow /\ [][Next]_vars

\* The send buffer of the sockets takes one item less than a stream can
\* have pending.  The client application connects, sends and closes; the
\* server accepts and only acknowledges; the link neither loses nor
\* duplicates.
InitBuf ==
  /\ Start([Constructed EXCEPT
              !.socks = [k \in Socks |-> [@[k] EXCEPT !.bufItems = MaxSeq - 1]]])
  /\ used = [connects |-> 0, drops |-> 0, dups |-> 0, calls |-> 0, fires |-> 0]
  /\ limit = [connects |-> 1, drops |-> 0, dups |-> 0, calls |-> MaxSeq,
              fires |-> MaxFires + 1, dead |-> 0, userData |-> 0]

NextBuf ==
  \/ \E v \in Vals : Connect(v)
  \/ \E s \in DOMAIN streams, v \in Vals : streams[s].kind = "client" /\ StreamSend(s, v)
  \/ \E s \in DOMAIN streams : streams[s].kind = "client" /\ StreamClose(s)
  \/ \E s \in DOMAIN streams : SendTick(s)
  \/ \E s \in DOMAIN streams : RetryFire(s)
  \/ \E f \in net : Deliver(f, FALSE)
  \/ \E i \in DOMAIN pend, userData \in UserData : ConnectResolve(i, userData)

SpecBuf == InitBuf /\ [][NextBuf]_vars

\* Graceful shutdown: the applications of both sides send and close their
\* streams, never end() them; the server accepts; the link neither loses
\* nor duplicates.
InitGrace ==
  /\ InitProgram
  /\ limit = [connects |-> 1, drops |-> 0, dups |-> 0, calls |-> MaxCalls + 1,
              fires |-> MaxFires, dead |-> 0, userData |-> 0]

NextGrace ==
  \/ \E v \in Vals : Connect(v)
  \/ \E s \in DOMAIN streams, v \in Vals : StreamSend(s, v)
  \/ \E s \in DOMAIN streams : StreamClose(s)
  \/ \E s \in DOMAIN streams : SendTick(s)
  \/ \E s \in DOMAIN streams : RetryFire(s)
  \/ \E f \in net : Deliver(f, FALSE)
  \/ \E i \in DOMAIN pend, userData \in UserData : ConnectResolve(i, userData)

SpecGrace == InitGrace /\ [][NextGrace]_vars

\* The peer never answers.  Either the client connects to a server that is
\* gone, or the client is gone after the server accepted its stream (the
\* connect request was delivered, the handler resolved with userData and the
\* ack was sent).  sent counts the frames emitted since the peer fell silent.
Established(userData) ==
  LET G1 == sendTick(connect(Constructed, 1, 2, 1), 1)
      f == CHOOSE x \in G1.net : TRUE
      G2 == handleMessage([G1 EXCEPT !.net = {}], 2, 1, f.words)
      G3 == sendTick(connectResolve(G2, 1, userData), 2)
  IN [G3 EXCEPT !.streams[2].sent = 0]

InitDead ==
  \/ /\ InitProgram
     /\ limit = [connects |-> 1, drops |-> OPEN_ATTEMPTS + 1, dups |-> 0,
                 calls |-> MaxSeq, fires |-> OPEN_ATTEMPTS + 1,
                 dead |-> 2, userData |-> 0]
  \/ \E userData \in UserData :
       /\ Start(Established(userData))
       /\ used = [connects |-> 1, drops |-> 0, dups |-> 0, calls |-> 0, fires |-> 0]
       /\ limit = [connects |-> 1, drops |-> OPEN_ATTEMPTS + 1, dups |-> 0,
                   calls |-> MaxSeq, fires |-> OPEN_ATTEMPTS + 1,
                   dead |-> 1, userData |-> userData]

\* the streams of the socket that is not gone
Alive == {s \in DOMAIN streams : streams[s].sock # limit.dead}

NextDead ==
  \/ \E v \in Vals : limit.dead = 2 /\ Connect(v)
  \/ \E s \in Alive, v \in Vals : streams[s].onClose /\ StreamSend(s, v)
  \/ \E s \in Alive : SendTick(s)
  \/ \E s \in Alive : RetryFire(s)
  \/ \E f \in net : Drop(f)

SpecDead == InitDead /\ [][NextDead]_vars

\* ------------------------------------------------------------------ claims
Ended(s) == ~streams[s].onClose
Live(s) == streams[s].onClose
Closing(s) == streams[s].closing /\ Live(s)

\* the streams of the peer socket that send to the socket of s
PeerStreams(s) ==
  {p \in DOMAIN streams : streams[p].sock = streams[s].remote
                          /\ streams[p].remote = streams[s].sock}

\* d is an item the peer enqueued, under the seq it was enqueued with
Genuine(s, d) ==
  \E p \in PeerStreams(s) :
    d.seq <= Len(streams[p].enq) /\ streams[p].enq[d.seq] = d.item

Increasing(log) ==
  \A i, j \in DOMAIN log : i < j => log[i].seq < log[j].seq

\* C1: the items handed to the receive handler have strictly increasing seq,
\* none twice, and an item with seq <= remote_seq is skipped without
\* disturbing the parse of the items after it: what is handed over is what
\* the peer enqueued under that seq.
C1_InOrderUndisturbed ==
  \A s \in DOMAIN streams :
    /\ Increasing(streams[s].delivered)
    /\ \A i \in DOMAIN streams[s].delivered : Genuine(s, streams[s].delivered[i])

\* C3: the onClose callback of a stream is invoked at most once.
C3_OnCloseAtMostOnce ==
  \A s \in DOMAIN streams : streams[s].onCloseCalls <= 1

\* end() ran a second time on a stream whose onClose had fired
C3_Witness ==
  \E s \in DOMAIN streams :
    streams[s].onCloseCalls = 1 /\ streams[s].endCalls = 2

\* nothing is left that would make the program run again: no datagram in
\* flight, no promise pending, no scheduled send, no armed timer
Quiescent ==
  /\ net = {}
  /\ pend = <<>>
  /\ \A s \in DOMAIN streams :
       streams[s].sendHandle # "armed" /\ streams[s].retryHandle # "armed"

\* a is the outbound stream of the client socket and b the stream the server
\* socket registered for it
Connected(a, b) ==
  /\ socks[1].stream = a
  /\ 1 \in DOMAIN socks[2].streams
  /\ socks[2].streams[1].stream = b

Open(s) == Live(s) /\ ~streams[s].closing

DeliveredOnce(from, to) ==
  \A q \in 1..Len(streams[from].enq) :
    Cardinality({i \in DOMAIN streams[to].delivered :
                   streams[to].delivered[i].seq = q
                   /\ streams[to].delivered[i].item = streams[from].enq[q]}) = 1

\* C2: between two connected streams that are both open, once the link has
\* lost its finitely many datagrams and the program has come to rest, every
\* enqueued message has been handed to the peer's handler exactly once and
\* the pending queues are empty.
C2_DeliveredAtRest ==
  \A a, b \in DOMAIN streams :
    (Connected(a, b) /\ Open(a) /\ Open(b) /\ Quiescent) =>
      /\ streams[a].items = <<>> /\ DeliveredOnce(a, b)
      /\ streams[b].items = <<>> /\ DeliveredOnce(b, a)

\* C4: a stream that is CLOSING (closed locally, or by the remote close
\* sentinel) reaches ENDED: once the program has come to rest, no stream is
\* left closing without having ended.
C4_ClosingEndsAtRest ==
  Quiescent => \A s \in DOMAIN streams : streams[s].closing => Ended(s)

\* the inbound streams a socket constructed for remote r
Inbound(k, r) ==
  {s \in DOMAIN streams : streams[s].kind = "server" /\ streams[s].sock = k
                          /\ streams[s].remote = r}

Registered(s) ==
  /\ streams[s].kind = "server"
  /\ streams[s].remote \in DOMAIN socks[streams[s].sock].streams
  /\ socks[streams[s].sock].streams[streams[s].remote].stream = s

\* C5: of the provisional streams the datagrams of one remote created while
\* its connect handler was pending, exactly one is registered and
\* open_handler is called once; every other one gets neither open_handler
\* nor close_handler.
C5_OneAcceptPerRemote ==
  \A k \in Socks, r \in Socks :
    /\ Cardinality({s \in Inbound(k, r) : streams[s].opens > 0}) <= 1
    /\ \A s \in Inbound(k, r) : streams[s].opens <= 1
    /\ \A s \in Inbound(k, r) : streams[s].opens = 0 => streams[s].closes = <<>>

\* C6: every stream registered in server_streams is live; a provisional
\* stream that ended while its connect handler was pending is not registered
\* afterwards.
C6_RegisteredLive ==
  \A s \in DOMAIN streams : Registered(s) => Live(s)

\* the streams socket k owns: every outbound stream it created and every
\* inbound stream it has registered
Owned(k) ==
  {s \in DOMAIN streams :
     \/ streams[s].kind = "client" /\ streams[s].sock = k
     \/ streams[s].sock = k /\ Registered(s)}

\* C7: the socket releases its transport (socket.end()) only in a state
\* where its outbound stream and every stream it had registered has ENDED.
C7_ReleaseOnlyWhenEnded ==
  [][\A k \in Socks :
       socks'[k].released > socks[k].released =>
         \A s \in Owned(k) : ~streams'[s].onClose]_vars

\* C8: after close() the transport is released, and released once: when the
\* program has come to rest a closing socket has run socket.end(), and
\* socket.end() never runs a second time.
C8_ReleasedOnce ==
  \A k \in Socks :
    /\ socks[k].released <= 1
    /\ (Quiescent /\ socks[k].closing) => socks[k].released = 1

\* C9: an OPEN stream with pending items whose peer never answers emits
\* exactly max_attempts = 10 frames; the wait armed after the n-th frame is
\* 500 n ms up to 3000 ms, retry_interval stays within 500..3000 in steps of
\* 500; after the tenth frame's wait it ENDs, and if it was registered it is
\* evicted and close_handler is called once with its user-data.
C9_DeadPeer ==
  \A s \in Alive :
    LET st == streams[s] IN
    /\ st.retryInterval \in {n * RETRY_STEP : n \in 1..6}
    /\ st.retryInterval >= MIN_RETRY_INTERVAL /\ st.retryInterval <= MAX_RETRY_INTERVAL
    /\ st.sent <= OPEN_ATTEMPTS
    /\ st.retryHandle = "armed" =>
         st.retryDelay = Min(RETRY_STEP * st.sent, MAX_RETRY_INTERVAL)
    /\ (Live(s) /\ st.sent > 0 /\ st.sendHandle # "armed") => st.retryHandle = "armed"
    /\ Ended(s) =>
         /\ st.sent = OPEN_ATTEMPTS
         /\ ~Registered(s)
         /\ st.closes = <<limit.userData>>

\* a registered stream that ended after ten unanswered frames
C9_Witness ==
  \E s \in Alive :
    /\ Ended(s) /\ streams[s].kind = "server" /\ streams[s].sent = OPEN_ATTEMPTS
    /\ streams[s].closes = <<limit.userData>> /\ limit.userData > 0

Armed(st) == st.sendHandle = "armed" \/ st.retryHandle = "armed"

\* C10: a receive() of a frame the stream has already received delivers no
\* item, leaves pending and remote_seq as they are, and does not take away
\* the scheduled send or armed retry timer the stream had.
C10_DuplicateFrameNoEffect ==
  [][\A s \in DOMAIN streams :
       (s \in DOMAIN streams' /\ streams'[s].again = streams[s].again + 1) =>
         /\ streams'[s].delivered = streams[s].delivered
         /\ streams'[s].items = streams[s].items
         /\ streams'[s].remoteSeq = streams[s].remoteSeq
         /\ Armed(streams[s]) => Armed(streams'[s])]_vars

\* C11: close() is idempotent: from every reachable state and for every
\* stream, close() called twice in a row leaves the program (the stream's
\* closing, max_attempts, pending, scheduled send, retry timer, attempts, and
\* the frames emitted) as close() called once does.
C11_CloseIdempotent ==
  \A s \in DOMAIN streams :
    close(close(State, s), s) = close(State, s)

\* a live stream that a local close() has put in CLOSING with its send
\* scheduled: the state a second close() is called in
C11_Witness ==
  \E s \in DOMAIN streams :
    /\ Live(s) /\ streams[s].closing
    /\ streams[s].maxAttempts = CLOSE_ATTEMPTS
    /\ streams[s].sendHandle = "armed"
    /\ close(State, s) = State

\* C12: send(item) on a stream whose closing flag is set is a no-op: pending
\* and local_seq are unchanged, no send is scheduled, no timer is armed and
\* the stream is not ended by the call.
C12_SendWhileClosingNoOp ==
  \A s \in DOMAIN streams, v \in Vals :
    streams[s].closing =>
      LET after == Stream(send(State, s, TRUE, v), s) IN
      /\ after.items = streams[s].items
      /\ after.localSeq = streams[s].localSeq
      /\ after.sendHandle = streams[s].sendHandle
      /\ after.retryHandle = streams[s].retryHandle
      /\ after.onClose = streams[s].onClose

\* C13: when the connect handler of a new inbound stream resolves with no
\* user-data, the socket calls close() on the provisional stream, so the
\* stream is left as close() leaves it (CLOSING, its close frame scheduled);
\* the stream is not registered and open_handler is not called.
C13_RejectCloses ==
  \A i \in DOMAIN pend :
    LET s == pend[i].stream
        rejected == connectResolve(State, i, 0)
        closed == close([State EXCEPT !.pend = RemoveAt(@, i)], s)
    IN Open(s) =>
         /\ Stream(rejected, s) = Stream(closed, s)
         /\ Sock(rejected, pend[i].sock).streams = socks[pend[i].sock].streams
         /\ Stream(rejected, s).opens = streams[s].opens

\* C14: when the on_close of a server-side stream S for remote K fires: if
\* server_streams[K] references S, the entry is removed and close_handler is
\* called once with the user-data stored for S; if it references another
\* stream, server_streams is left as it is and close_handler is not called.
C14_EvictOnClose ==
  [][\A s \in DOMAIN streams :
       LET st == streams[s]
           reg == socks[st.sock].streams
           regAfter == socks'[st.sock].streams
       IN (st.kind = "server" /\ streams'[s].onCloseCalls = st.onCloseCalls + 1
           /\ st.remote \in DOMAIN reg) =>
            IF reg[st.remote].stream = s
            THEN /\ st.remote \notin DOMAIN regAfter
                 /\ streams'[s].closes = Append(st.closes, reg[st.remote].userData)
            ELSE /\ regAfter = reg
                 /\ streams'[s].closes = st.closes]_vars

\* C15: ENDED is terminal: once end() has run on a stream, no later send(),
\* close(), receive() or timer event schedules a send or arms the retry
\* timer of that stream, and the stream emits no further frame.
C15_EndedTerminal ==
  [][\A s \in DOMAIN streams :
       Ended(s) => /\ ~Armed(streams'[s])
                   /\ streams'[s].sent = streams[s].sent]_vars

\* C16: a socket has at most one live outbound stream: every live stream
\* that connect() created on a socket is the one the socket references as
\* its client stream.
C16_OneOutbound ==
  \A s \in DOMAIN streams :
    (streams[s].kind = "client" /\ Live(s)) => socks[streams[s].sock].stream = s

\* C17: an exception thrown by the user's close_handler or open_handler does
\* not corrupt socket state: the stream close_handler was called for is
\* evicted, the stream open_handler was called for is registered, and a
\* closing socket whose streams have all drained has released its transport.
C17_HandlerThrowHarmless ==
  [][\A s \in DOMAIN streams :
       LET k == streams[s].sock
           drained == /\ socks'[k].stream = 0
                      /\ (~socks'[k].listening \/ DOMAIN socks'[k].streams = {})
       IN /\ Len(streams'[s].closes) > Len(streams[s].closes) =>
               /\ streams[s].kind = "server" =>
                    streams[s].remote \notin DOMAIN socks'[k].streams
               /\ (socks'[k].closing /\ drained) => socks'[k].released > 0
          /\ streams'[s].opens > streams[s].opens =>
               /\ streams[s].remote \in DOMAIN socks'[k].streams
               /\ socks'[k].streams[streams[s].remote].stream = s]_vars

\* words is ack, then the first n pending items of st in queue order, then
\* one terminator: 0xFFFF if st is closing and n is all of pending, else 0
FrameOf(words, st, n) ==
  /\ Len(words) = 2 * n + 2
  /\ words[1] = st.remoteSeq
  /\ \A i \in 1..n : words[2 * i] = st.items[i].seq /\ words[2 * i + 1] = st.items[i].item
  /\ \A i \in 1..n, j \in 1..n : i < j => words[2 * i] < words[2 * j]
  /\ words[2 * n + 2] = CLOSE_SEQ <=> (st.closing /\ n = Len(st.items))
  /\ words[2 * n + 2] \in {0, CLOSE_SEQ}

\* C18: every frame serialize() produces is the ack (the current
\* remote_seq), the pending items up to the first that does not fit the
\* buffer, in increasing seq order, and one terminator, which is 0xFFFF if
\* and only if the stream is closing and every pending item was written;
\* serialize() leaves pending as it is.
C18_FrameShape ==
  [][\A s \in DOMAIN streams :
       streams'[s].sent = streams[s].sent + 1 =>
         /\ streams'[s].items = streams[s].items
         /\ \E f \in net' :
              /\ f.from = streams[s].sock /\ f.to = streams[s].remote
              /\ FrameOf(f.words, streams[s],
                         Min(Len(streams[s].items), socks[streams[s].sock].bufItems))]_vars

\* a closing stream with more pending than one frame takes has emitted a
\* truncated frame, which ends with 0
C18_Witness ==
  \E s \in DOMAIN streams, f \in net :
    /\ streams[s].closing /\ streams[s].sent > 0
    /\ Len(streams[s].items) > socks[streams[s].sock].bufItems
    /\ f.from = streams[s].sock
    /\ Len(f.words) = 2 * socks[streams[s].sock].bufItems + 2
    /\ f.words[Len(f.words)] = 0

\* C19: a stream has more items pending than one frame takes, no datagram is
\* lost and the peer only acknowledges.  Once the program has come to rest
\* all items have been handed to the peer's handler once, pending is empty,
\* and a stream that was closing has ended.
C19_TruncatedDrainsAtRest ==
  \A a, b \in DOMAIN streams :
    (/\ Quiescent
     /\ streams[a].kind = "client" /\ b \in PeerStreams(a) /\ streams[b].opens = 1
     /\ Len(streams[a].enq) > socks[streams[a].sock].bufItems) =>
      /\ DeliveredOnce(a, b)
      /\ streams[a].items = <<>>
      /\ streams[a].closing => Ended(a)

\* C20: a stream that has not ENDED and has pending items, or is closing,
\* has a send scheduled or its retry timer armed.
C20_RetransmitArmed ==
  \A s \in DOMAIN streams :
    (Live(s) /\ (streams[s].items # <<>> \/ streams[s].closing)) => Armed(streams[s])

\* the seqs of pending are a contiguous increasing run that ends at local_seq
PendingRun(st) ==
  /\ \A i \in DOMAIN st.items : st.items[i].seq >= 1 /\ st.items[i].seq <= st.localSeq
  /\ \A i, j \in DOMAIN st.items : i < j => st.items[i].seq < st.items[j].seq
  /\ \A i \in DOMAIN st.items : st.items[i].seq = st.localSeq - Len(st.items) + i

\* C21: in every reachable state of every stream the seqs in pending are
\* strictly increasing, without duplicates, all >= 1 and <= local_seq, and
\* form a contiguous run ending at local_seq; local_seq never decreases.
C21_PendingRun ==
  [][\A s \in DOMAIN streams' :
       /\ PendingRun(streams'[s])
       /\ s \in DOMAIN streams => streams'[s].localSeq >= streams[s].localSeq]_vars

\* an ack has removed the head of a pending queue and left its tail
C21_Witness ==
  \E s \in DOMAIN streams :
    /\ streams[s].items # <<>>
    /\ streams[s].items[1].seq > 1
    /\ streams[s].localSeq = MaxSeq

\* every peer seq up to remote_seq has been handed to the handler of s
Contiguous(s) ==
  streams[s].remoteSeq # CLOSE_SEQ =>
    \A q \in 1..streams[s].remoteSeq :
      \E i \in DOMAIN streams[s].delivered :
        streams[s].delivered[i].seq = q /\ Genuine(s, streams[s].delivered[i])

AllContiguous == \A s \in DOMAIN streams : Contiguous(s)

\* C22: the ack a stream reports is cumulative and contiguous: remote_seq
\* never decreases, and when remote_seq = n (not the close value) every peer
\* seq 1..n has been handed to this stream's handler.
C22_AckContiguous ==
  [][/\ AllContiguous'
     /\ \A s \in DOMAIN streams : streams'[s].remoteSeq >= streams[s].remoteSeq]_vars

\* p is the outbound stream of its socket or an inbound stream the socket
\* accepted
Accepted(p) ==
  streams[p].kind = "client" \/ streams[p].opens > 0 \/ Registered(p)

PendingSeqs(s) == {streams[s].items[i].seq : i \in DOMAIN streams[s].items}

\* once no accept decision is pending, every item that left the pending
\* queue of s has been handed to the handler of an accepted peer stream
AckedWasDelivered ==
  (pend = <<>>) =>
    \A s \in DOMAIN streams :
      (\E p \in PeerStreams(s) : Accepted(p)) =>
        \A q \in 1..Len(streams[s].enq) :
          q \notin PendingSeqs(s) =>
            \E p \in PeerStreams(s) :
              /\ Accepted(p)
              /\ \E i \in DOMAIN streams[p].delivered :
                   /\ streams[p].delivered[i].seq = q
                   /\ streams[p].delivered[i].item = streams[s].enq[q]

\* C23: an incoming ack removes an item from pending only if its seq <= that
\* ack, and an item removed this way has been handed to the peer
\* application by a handler of the connection that is, or becomes, the
\* accepted one, also when several provisional streams exist for a remote.
C23_AckedDelivered ==
  [][/\ \A s \in DOMAIN streams :
          \A i \in DOMAIN streams[s].items :
            streams[s].items[i] \notin {streams'[s].items[j] : j \in DOMAIN streams'[s].items} =>
              \E f \in net : /\ f.to = streams[s].sock /\ f.from = streams[s].remote
                             /\ f.words[1] >= streams[s].items[i].seq
     /\ AckedWasDelivered']_vars

\* C24: max_attempts is 1 if the remote close sentinel has been observed,
\* otherwise 5 if close() was called locally, otherwise 10; after the remote
\* close has been observed the stream emits at most one more frame.
C24_MaxAttempts ==
  \A s \in DOMAIN streams :
    LET st == streams[s] IN
    /\ st.remoteSeq = CLOSE_SEQ =>
         st.maxAttempts = REMOTE_CLOSE_ATTEMPTS /\ st.sent - st.sentAtClose <= 1
    /\ (st.remoteSeq # CLOSE_SEQ /\ st.closing /\ Live(s)) =>
         st.maxAttempts = CLOSE_ATTEMPTS
    /\ ~st.closing => st.maxAttempts = OPEN_ATTEMPTS

\* C25: of a new inbound connection only the connect request (seq 1) is
\* given to a connect handler; a later item, in the same first frame or in a
\* datagram received while the accept decision is pending, is not treated
\* as a connect request (which, without a connect handler for its type,
\* would send a close sentinel).
C25_OnlyRequestToConnectHandler ==
  \A s \in DOMAIN streams :
    \A i \in DOMAIN streams[s].delivered :
      streams[s].delivered[i].via = "connect" => streams[s].delivered[i].seq = 1

\* C26: a transport send that throws during a scheduled send tick does not
\* wedge the stream: whenever a live stream has no send scheduled, the
\* send() call of its retry timer or of the application schedules one (or
\* ends the stream because attempts reached max_attempts).
C26_SendFailureNotWedged ==
  \A s \in DOMAIN streams :
    (Live(s) /\ streams[s].sendHandle # "armed") =>
      LET after == Stream(send(State, s, FALSE, 0), s)
      IN after.sendHandle = "armed" \/ ~after.onClose

\* C27: when a provisional inbound stream that was never registered ends
\* and no stream is registered for its remote, its on_close callback raises
\* no error, leaves server_streams as it is and calls neither open_handler
\* nor close_handler.
C27_UnregisteredEndsSilently ==
  \A s \in DOMAIN streams :
    (/\ streams[s].kind = "server" /\ Live(s)
     /\ streams[s].remote \notin DOMAIN socks[streams[s].sock].streams) =>
      LET G == end(State, s) IN
      /\ ~G.exc /\ G.thrown = thrown
      /\ G.socks = socks
      /\ Stream(G, s).opens = streams[s].opens
      /\ Stream(G, s).closes = streams[s].closes

\* C28: graceful shutdown loses no queued data: with no datagram loss, when
\* a stream has ENDed, every item its peer had enqueued (its peer is closing
\* by then) has been handed to its handler, the items in the peer's confirm
\* frame included.
C28_GracefulFlush ==
  \A a, b \in DOMAIN streams :
    (b \in PeerStreams(a) /\ Accepted(a) /\ Accepted(b) /\ Ended(a)) =>
      \A q \in 1..Len(streams[b].enq) :
        \E i \in DOMAIN streams[a].delivered :
          /\ streams[a].delivered[i].seq = q
          /\ streams[a].delivered[i].item = streams[b].enq[q]

====
